---- MODULE Spec2Model ----
(***************************************************************************)
(* Model of the GameMaker data.win decoders of crates/formats/datawin:     *)
(*   game_maker_data.py  - the FORM container parser (GameMakerData)       *)
(*   gml_bytecode.py     - the GML bytecode decoder (GmlBytecode)          *)
(*                                                                         *)
(* A buffer is a sequence of bytes (0..255).  Stream offsets are 0-based   *)
(* as in the source; Slice and the readers convert to TLA+'s 1-based       *)
(* sequences.  The stream primitives (read_bytes, read_u4le, is_eof,       *)
(* read_bytes_full) are those of the kaitaistruct runtime the generated    *)
(* code calls: a read of n bytes raises EOFError when fewer than n bytes   *)
(* remain, and is_eof is true exactly at the end of the stream.            *)
(* Unsigned 32-bit fields are kept below 2^31 by the inputs, the range of  *)
(* the model checker's integers.                                           *)
(***************************************************************************)
EXTENDS Integers, Sequences, FiniteSets, TLC

VARIABLES
    buf,        \* the byte buffer handed to the parser (the root stream)
    pos,        \* position of the root stream
    pc,         \* where the running operation is
    form_size,  \* GameMakerData.size: the u32 after the FORM magic
    chunks,     \* GameMakerData.chunks
    err,        \* the exception that ended the operation, if any
    arg,        \* the scalar argument of a pure operation (StringRef, pointers)
    res,        \* the result of a pure operation
    instructions,     \* GmlBytecode.instructions
    bytecode_version  \* the bytecode_version an operation is constructed with

vars == <<buf, pos, pc, form_size, chunks, err, arg, res, instructions, bytecode_version>>

----------------------------------------------------------------------------
(* Stream primitives.                                                      *)

\* n bytes of s starting at 0-based offset p
Slice(s, p, n) == SubSeq(s, p + 1, p + n)

\* KaitaiStream.read_bytes(n) succeeds iff n bytes remain at p
CanRead(s, p, n) == p >= 0 /\ n >= 0 /\ p + n <= Len(s)

\* KaitaiStream.is_eof()
IsEof(s, p) == p >= Len(s)

\* KaitaiStream.read_u4le(): little-endian unsigned 32-bit
U4le(s, p) == s[p + 1] + 256 * s[p + 2] + 65536 * s[p + 3] + 16777216 * s[p + 4]

\* KaitaiStream.read_s4le(): little-endian two's-complement 32-bit
S4le(s, p) ==
    IF s[p + 4] >= 128
    THEN s[p + 1] + 256 * s[p + 2] + 65536 * s[p + 3] + 16777216 * (s[p + 4] - 256)
    ELSE U4le(s, p)

\* KaitaiStream.read_u2le()
U2le(s, p) == s[p + 1] + 256 * s[p + 2]

\* bytes.decode("ASCII") succeeds iff every byte is below 0x80
IsAscii(s) == \A i \in 1..Len(s) : s[i] < 128

NoErr == [kind |-> "none", at |-> 0]
Fail(k) == [ok |-> FALSE, err |-> k]

----------------------------------------------------------------------------
(* Chunk tags (ASCII bytes).                                               *)

TagFORM == <<70, 79, 82, 77>>
TagAUDO == <<65, 85, 68, 79>>
TagBGND == <<66, 71, 78, 68>>
TagCODE == <<67, 79, 68, 69>>
TagFONT == <<70, 79, 78, 84>>
TagFUNC == <<70, 85, 78, 67>>
TagGEN8 == <<71, 69, 78, 56>>
TagGLOB == <<71, 76, 79, 66>>
TagLANG == <<76, 65, 78, 71>>
TagOBJT == <<79, 66, 74, 84>>
TagOPTN == <<79, 80, 84, 78>>
TagROOM == <<82, 79, 79, 77>>
TagSCPT == <<83, 67, 80, 84>>
TagSEQN == <<83, 69, 81, 78>>
TagSHDR == <<83, 72, 68, 82>>
TagSOND == <<83, 79, 78, 68>>
TagSPRT == <<83, 80, 82, 84>>
TagSTRG == <<83, 84, 82, 71>>
TagTPAG == <<84, 80, 65, 71>>
TagTXTR == <<84, 88, 84, 82>>
TagVARI == <<86, 65, 82, 73>>

\* the tags whose body is a bare PointerList
PointerListTags ==
    {TagAUDO, TagBGND, TagCODE, TagFONT, TagOBJT, TagROOM, TagSCPT, TagSHDR,
     TagSOND, TagSPRT, TagSTRG, TagTPAG, TagTXTR}

\* the tags Chunk._read dispatches on
KnownTags ==
    PointerListTags \cup {TagFUNC, TagGEN8, TagGLOB, TagLANG, TagOPTN, TagSEQN, TagVARI}

----------------------------------------------------------------------------
(* Sub-parsers.  Each takes the sub-stream io (the chunk's raw body) and a *)
(* start offset and returns [ok, ...]: on success the parsed fields and    *)
(* pos, the sub-stream position after the last read.                       *)

\* (mutant) the loop stops quietly at the end of the stream
RECURSIVE ReadU4Array_lenient(_, _, _)
ReadU4Array_lenient(io, p, n) ==
    IF n = 0 \/ ~CanRead(io, p, 4) THEN [ok |-> TRUE, items |-> <<>>, pos |-> p]
    ELSE LET rest == ReadU4Array_lenient(io, p + 4, n - 1)
         IN  [ok |-> TRUE, items |-> <<U4le(io, p)>> \o rest.items, pos |-> rest.pos]

\* for i in range(n): items.append(io.read_u4le())
RECURSIVE ReadU4Array(_, _, _)
ReadU4Array(io, p, n) ==
    IF n = 0 THEN [ok |-> TRUE, items |-> <<>>, pos |-> p]
    ELSE IF ~CanRead(io, p, 4) THEN [ok |-> FALSE, items |-> <<>>, pos |-> p]
    ELSE LET rest == ReadU4Array(io, p + 4, n - 1)
         IN  [ok |-> rest.ok,
              items |-> IF rest.ok THEN <<U4le(io, p)>> \o rest.items ELSE <<>>,
              pos |-> rest.pos]

\* PointerList._read
PointerListRead(io, p) ==
    IF ~CanRead(io, p, 4) THEN Fail("EOFError")
    ELSE LET count == U4le(io, p)
             offs == ReadU4Array(io, p + 4, count)
         IN  IF ~offs.ok THEN Fail("EOFError")
             ELSE [ok |-> TRUE, count |-> count, offsets |-> offs.items, pos |-> offs.pos]

\* the thirteen XxxxBody._read that hold one PointerList
PointerBodyRead(io) ==
    LET pl == PointerListRead(io, 0)
    IN  IF ~pl.ok THEN pl
        ELSE [ok |-> TRUE, kind |-> "pointer_list", consumed |-> pl.pos,
              val |-> [count |-> pl.count, offsets |-> pl.offsets]]

\* (mutant) the pointer list read from the start of the body
SeqnBodyRead_noversion(io) ==
    LET pl == PointerListRead(io, 0)
    IN  IF ~pl.ok THEN pl
        ELSE [ok |-> TRUE, kind |-> "seqn", consumed |-> pl.pos,
              val |-> [version |-> 0, count |-> pl.count, offsets |-> pl.offsets]]

\* SeqnBody._read
SeqnBodyRead(io) ==
    IF ~CanRead(io, 0, 4) THEN Fail("EOFError")
    ELSE LET pl == PointerListRead(io, 4)
         IN  IF ~pl.ok THEN pl
             ELSE [ok |-> TRUE, kind |-> "seqn", consumed |-> pl.pos,
                   val |-> [version |-> U4le(io, 0), count |-> pl.count,
                            offsets |-> pl.offsets]]

\* GlobBody._read
GlobBodyRead(io) ==
    IF ~CanRead(io, 0, 4) THEN Fail("EOFError")
    ELSE LET count == U4le(io, 0)
             ids == ReadU4Array(io, 4, count)
         IN  IF ~ids.ok THEN Fail("EOFError")
             ELSE [ok |-> TRUE, kind |-> "glob", consumed |-> ids.pos,
                   val |-> [count |-> count, script_ids |-> ids.items]]

\* for i in range(n): entries.append(<two u32>)   (LangEntry, OptionConstant)
RECURSIVE ReadPairArray(_, _, _)
ReadPairArray(io, p, n) ==
    IF n = 0 THEN [ok |-> TRUE, items |-> <<>>, pos |-> p]
    ELSE IF ~CanRead(io, p, 8) THEN [ok |-> FALSE, items |-> <<>>, pos |-> p]
    ELSE LET rest == ReadPairArray(io, p + 8, n - 1)
         IN  [ok |-> rest.ok,
              items |-> IF rest.ok
                        THEN <<[name |-> U4le(io, p), value |-> U4le(io, p + 4)]>>
                             \o rest.items
                        ELSE <<>>,
              pos |-> rest.pos]

\* LangBody._read
LangBodyRead(io) ==
    IF ~CanRead(io, 0, 8) THEN Fail("EOFError")
    ELSE LET es == ReadPairArray(io, 8, U4le(io, 4))
         IN  IF ~es.ok THEN Fail("EOFError")
             ELSE [ok |-> TRUE, kind |-> "lang", consumed |-> es.pos,
                   val |-> [entry_count |-> U4le(io, 0), actual_count |-> U4le(io, 4),
                            entries |-> es.items]]

\* OptnBody._read
OptnBodyRead(io) ==
    IF ~CanRead(io, 0, 64) THEN Fail("EOFError")
    ELSE LET cs == ReadPairArray(io, 64, U4le(io, 60))
         IN  IF ~cs.ok THEN Fail("EOFError")
             ELSE [ok |-> TRUE, kind |-> "optn", consumed |-> cs.pos,
                   val |-> [flags |-> U4le(io, 0), constant_count |-> U4le(io, 60),
                            constants |-> cs.items]]

\* FuncBody._read, VariBody._read: data = read_bytes_full()
BlobBodyRead(io) ==
    [ok |-> TRUE, kind |-> "blob", consumed |-> Len(io), val |-> [data |-> io]]

\* (mutant) room_count read right after steam_app_id whatever the version
Gen8RoomCountAt_never(bcv) == 124

\* offset of room_count in the GEN8 body: debugger_port precedes it iff
\* bytecode_version >= 14
Gen8RoomCountAt(bcv) == IF bcv >= 14 THEN 128 ELSE 124

\* Gen8Body._read
Gen8BodyRead(io) ==
    IF ~CanRead(io, 0, 124) THEN Fail("EOFError")
    ELSE LET bcv == io[2]
             ide == U4le(io, 44)
             rc_at == Gen8RoomCountAt(bcv)
         IN  IF ~CanRead(io, 0, rc_at + 4) THEN Fail("EOFError")
             ELSE LET rooms == ReadU4Array(io, rc_at + 4, U4le(io, rc_at))
                  IN  IF ~rooms.ok THEN Fail("EOFError")
                      ELSE [ok |-> TRUE, kind |-> "gen8",
                            consumed |-> IF ide >= 2 THEN Len(io) ELSE rooms.pos,
                            val |-> [is_debug_disabled |-> io[1],
                                     bytecode_version |-> bcv,
                                     game_id |-> U4le(io, 20),
                                     ide_version_major |-> ide,
                                     ide_version_minor |-> U4le(io, 48),
                                     steam_app_id |-> S4le(io, 120),
                                     has_debugger_port |-> bcv >= 14,
                                     debugger_port |-> IF bcv >= 14 THEN U4le(io, 124) ELSE 0,
                                     room_count_at |-> rc_at,
                                     room_count |-> U4le(io, rc_at),
                                     room_order |-> rooms.items,
                                     has_gms2_extra |-> ide >= 2,
                                     gms2_extra |-> IF ide >= 2
                                                    THEN Slice(io, rooms.pos,
                                                               Len(io) - rooms.pos)
                                                    ELSE <<>>]]

\* (mutant) an unrecognised tag rejected
RawBodyRead_reject(io) == Fail("ValidationNotAnyOfError")

\* the else branch of Chunk._read: body = read_bytes(size)
RawBodyRead(io) ==
    [ok |-> TRUE, kind |-> "raw", consumed |-> Len(io), val |-> [data |-> io]]

\* the dispatch of Chunk._read on magic
SubParse(magic, io) ==
    IF magic \in PointerListTags THEN PointerBodyRead(io)
    ELSE IF magic = TagFUNC \/ magic = TagVARI THEN BlobBodyRead(io)
    ELSE IF magic = TagGEN8 THEN Gen8BodyRead(io)
    ELSE IF magic = TagGLOB THEN GlobBodyRead(io)
    ELSE IF magic = TagLANG THEN LangBodyRead(io)
    ELSE IF magic = TagOPTN THEN OptnBodyRead(io)
    ELSE IF magic = TagSEQN THEN SeqnBodyRead(io)
    ELSE RawBodyRead(io)

\* (mutant) the root stream advanced by what the sub-parser consumed
NextChunkPos_consumed(p, size, consumed) == p + 8 + consumed

\* where the root stream stands after a chunk read at p: the header and the
\* read_bytes(size) of the body, whatever the sub-parser consumed of it
NextChunkPos(p, size, consumed) == p + 8 + size

\* (mutant) the sub-parser reads from the root stream, up to its end
ChunkRead_unconfined(s, p) ==
    IF ~CanRead(s, p, 4) THEN Fail("EOFError")
    ELSE LET magic == Slice(s, p, 4)
         IN  IF ~IsAscii(magic) THEN Fail("UnicodeDecodeError")
             ELSE IF ~CanRead(s, p + 4, 4) THEN Fail("EOFError")
             ELSE LET size == U4le(s, p + 4)
                  IN  IF ~CanRead(s, p + 8, size) THEN Fail("EOFError")
                      ELSE LET body == SubParse(magic, Slice(s, p + 8, Len(s) - (p + 8)))
                           IN  IF ~body.ok THEN Fail(body.err)
                               ELSE [ok |-> TRUE,
                                     chunk |-> [start |-> p, magic |-> magic,
                                                size |-> size, body |-> body],
                                     pos |-> NextChunkPos(p, size, body.consumed)]

\* Chunk._read at root-stream position p
ChunkRead(s, p) ==
    IF ~CanRead(s, p, 4) THEN Fail("EOFError")
    ELSE LET magic == Slice(s, p, 4)
         IN  IF ~IsAscii(magic) THEN Fail("UnicodeDecodeError")
             ELSE IF ~CanRead(s, p + 4, 4) THEN Fail("EOFError")
             ELSE LET size == U4le(s, p + 4)
                  IN  IF ~CanRead(s, p + 8, size) THEN Fail("EOFError")
                      ELSE LET body == SubParse(magic, Slice(s, p + 8, size))
                           IN  IF ~body.ok THEN Fail(body.err)
                               ELSE [ok |-> TRUE,
                                     chunk |-> [start |-> p, magic |-> magic,
                                                size |-> size, body |-> body],
                                     pos |-> NextChunkPos(p, size, body.consumed)]

----------------------------------------------------------------------------
(* The container parser: GameMakerData._read, one action per step of it.   *)

\* magic = read_bytes(4), validated against FORM; size = read_u4le()
FormHeaderRead(s) ==
    IF ~CanRead(s, 0, 4) THEN Fail("EOFError")
    ELSE IF Slice(s, 0, 4) # TagFORM THEN Fail("ValidationNotEqualError")
    ELSE IF ~CanRead(s, 4, 4) THEN Fail("EOFError")
    ELSE [ok |-> TRUE, size |-> U4le(s, 4), pos |-> 8]

\* (mutant) the loop also stops at the end of the declared FORM payload
LoopContinues_declared(s, p, size) == ~IsEof(s, p) /\ p < 8 + size

\* the loop condition of GameMakerData._read: while not self._io.is_eof()
LoopContinues(s, p, size) == ~IsEof(s, p)

\* GameMakerData._read up to the loop
ReadForm ==
    /\ pc = "start"
    /\ LET h == FormHeaderRead(buf)
       IN  IF h.ok
           THEN /\ form_size' = h.size
                /\ pos' = h.pos
                /\ pc' = "loop"
                /\ err' = err
           ELSE /\ pc' = "error"
                /\ err' = [kind |-> h.err, at |-> 0]
                /\ UNCHANGED <<form_size, pos>>
    /\ UNCHANGED <<buf, chunks, arg, res, instructions, bytecode_version>>

\* one iteration of the loop: chunks.append(Chunk(io))
ReadChunk ==
    /\ pc = "loop"
    /\ LoopContinues(buf, pos, form_size)
    /\ LET r == ChunkRead(buf, pos)
       IN  IF r.ok
           THEN /\ chunks' = Append(chunks, r.chunk)
                /\ pos' = r.pos
                /\ UNCHANGED <<pc, err>>
           ELSE /\ pc' = "error"
                /\ err' = [kind |-> r.err, at |-> pos]
                /\ UNCHANGED <<chunks, pos>>
    /\ UNCHANGED <<buf, form_size, arg, res, instructions, bytecode_version>>

\* the loop ends and the constructor returns
Finish ==
    /\ pc = "loop"
    /\ ~LoopContinues(buf, pos, form_size)
    /\ pc' = "done"
    /\ UNCHANGED <<buf, pos, form_size, chunks, err, arg, res, instructions, bytecode_version>>

\* GameMakerData(KaitaiStream(BytesIO(s))) as a function of the buffer
RECURSIVE ParseChunks(_, _, _, _)
ParseChunks(s, p, size, acc) ==
    IF ~LoopContinues(s, p, size) THEN [ok |-> TRUE, chunks |-> acc]
    ELSE LET r == ChunkRead(s, p)
         IN  IF ~r.ok THEN Fail(r.err)
             ELSE ParseChunks(s, r.pos, size, Append(acc, r.chunk))

ParseContainer(s) ==
    LET h == FormHeaderRead(s)
    IN  IF ~h.ok THEN Fail(h.err) ELSE ParseChunks(s, h.pos, h.size, <<>>)

----------------------------------------------------------------------------
(* Inputs of the container parser.                                         *)

\* number of chunks in a generated buffer
MaxChunks == 2

LE32(n) == <<n % 256, (n \div 256) % 256, (n \div 65536) % 256, (n \div 16777216) % 256>>
Zeros(n) == [i \in 1..n |-> 0]

RECURSIVE Flatten(_)
Flatten(ss) == IF ss = <<>> THEN <<>> ELSE Head(ss) \o Flatten(Tail(ss))

RECURSIVE Words(_)
Words(ns) == IF ns = <<>> THEN <<>> ELSE LE32(Head(ns)) \o Words(Tail(ns))

\* a GEN8 body laid out field by field
Gen8Bytes(bcv, ide, rooms, extra) ==
    <<1, bcv, 0, 0>> \o Words(<<11, 12, 13, 14, 77>>) \o Zeros(16)
    \o Words(<<15, ide, 3, 0, 9, 640, 480, 0, 0>>) \o Zeros(16) \o Zeros(8)
    \o LE32(16) \o Zeros(8) \o Zeros(8) \o <<255, 255, 255, 255>>
    \o (IF bcv >= 14 THEN LE32(6502) ELSE <<>>)
    \o LE32(Len(rooms)) \o Words(rooms) \o extra

ChunkBytes(tag, size, body) == tag \o LE32(size) \o body

TagUnknown == <<65, 66, 67, 68>>
TagNonAscii == <<65, 200, 67, 68>>

PointerBodies ==
    { Words(<<0>>),              \* empty list
      Words(<<1, 16>>),          \* one offset inside the buffer
      Words(<<1, 0>>),           \* a zero offset
      Words(<<2, 16, 9000>>),    \* an offset beyond the buffer
      Words(<<2, 16>>),          \* count asks for more than the body holds
      Words(<<0, 5>>) }          \* bytes of the body left unread

ChunkCatalogue ==
    { ChunkBytes(TagGEN8, 132, Gen8Bytes(15, 1, <<>>, <<>>)),
      ChunkBytes(TagGEN8, 134, Gen8Bytes(13, 2, <<3>>, <<9, 9>>)),
      ChunkBytes(TagSEQN, 8, Words(<<1, 0>>)),
      ChunkBytes(TagGLOB, 12, Words(<<1, 7, 8>>)),
      ChunkBytes(TagVARI, 0, <<>>),
      ChunkBytes(TagUnknown, 0, <<>>),
      ChunkBytes(TagUnknown, 3, <<1, 2, 3>>),
      ChunkBytes(TagUnknown, 40, <<1, 2>>),
      ChunkBytes(TagNonAscii, 0, <<>>) }
    \cup { ChunkBytes(TagSTRG, Len(b), b) : b \in PointerBodies }

Layouts == UNION { [1..n -> ChunkCatalogue] : n \in 0..MaxChunks }

\* the declared sizes tried for a layout: the exact size of the chunk region,
\* a boundary before the last chunk, and a size beyond the end of the buffer
DeclaredSizes(l) ==
    {Len(Flatten(l)), Len(Flatten(l)) + 8}
    \cup (IF l = <<>> THEN {} ELSE {Len(Flatten(SubSeq(l, 1, Len(l) - 1)))})

Trailers == {<<>>, <<1, 2, 3>>}

\* bytes before the FORM magic: a PE stub, and one holding a FORM whose size
\* does not fit the buffer
Envelopes == {<<77, 90, 0>>, TagFORM \o LE32(1000000)}

ContainerInputs ==
    UNION { { TagFORM \o LE32(d) \o Flatten(l) \o t :
                d \in DeclaredSizes(l), t \in Trailers } : l \in Layouts }
    \cup { e \o TagFORM \o LE32(Len(Flatten(l))) \o Flatten(l) :
             e \in Envelopes, l \in Layouts }
    \cup { <<>>, <<70, 79, 82>>, TagFORM \o <<8, 0>>, <<88, 79, 82, 77, 0, 0, 0, 0>> }

Init ==
    /\ buf \in ContainerInputs
    /\ pos = 0
    /\ pc = "start"
    /\ form_size = 0
    /\ chunks = <<>>
    /\ err = NoErr
    /\ arg = 0
    /\ res = <<>>
    /\ instructions = <<>>
    /\ bytecode_version = 0

Next == ReadForm \/ ReadChunk \/ Finish

Spec == Init /\ [][Next]_vars

----------------------------------------------------------------------------
(* The PE envelope scan described for parse_container: the first offset at *)
(* which FORM occurs with a size field that fits the buffer; -1 if none.   *)

FormFits(s, p) ==
    /\ CanRead(s, p, 8)
    /\ Slice(s, p, 4) = TagFORM
    /\ U4le(s, p + 4) + 8 <= Len(s)

FindForm(s) ==
    IF \E p \in 0..Len(s) : FormFits(s, p)
    THEN CHOOSE p \in 0..Len(s) : FormFits(s, p) /\ \A q \in 0..(p - 1) : ~FormFits(s, q)
    ELSE -1

----------------------------------------------------------------------------
(* Claims about the container parser (specification Spec).                 *)

RECURSIVE SumChunkBytes(_)
SumChunkBytes(cs) == IF cs = <<>> THEN 0 ELSE 8 + Head(cs).size + SumChunkBytes(Tail(cs))

ChunkEnd(c) == c.start + 8 + c.size

\* where the read of the header following chunk i started: the next chunk's
\* start, the position of the failed read, or the stream position
NextHeaderAt(i) ==
    IF i < Len(chunks) THEN chunks[i + 1].start
    ELSE IF pc = "error" THEN err.at
    ELSE pos

\* C1: every chunk read has the tag and the u32 size of its header, the first
\* header is read at offset 8, and the header after a chunk (parsed, failed
\* or not there because the stream ended) is read exactly 8 + size bytes
\* after the chunk's start, whatever the sub-parser consumed.
C1_ChunksContiguous ==
    \A i \in 1..Len(chunks) :
        /\ chunks[i].magic = Slice(buf, chunks[i].start, 4)
        /\ chunks[i].size = U4le(buf, chunks[i].start + 4)
        /\ chunks[i].start = (IF i = 1 THEN 8 ELSE ChunkEnd(chunks[i - 1]))
        /\ NextHeaderAt(i) = ChunkEnd(chunks[i])

\* a recognised chunk whose sub-parser left bytes of the body unread,
\* followed by an unrecognised chunk
C1_Witness ==
    /\ pc = "done"
    /\ Len(chunks) = 2
    /\ chunks[1].magic \in KnownTags
    /\ chunks[1].body.consumed < chunks[1].size
    /\ chunks[2].magic \notin KnownTags
    /\ chunks[2].size > 0

\* C2: no chunk whose header starts at or beyond form_start + 8 +
\* declared_size is appended, and no read at or beyond it fails the parse.
C2_StopsAtDeclaredBoundary ==
    /\ \A i \in 1..Len(chunks) : chunks[i].start < 8 + form_size
    /\ (pc = "error" /\ err.at >= 8) => err.at < 8 + form_size

\* C3: in a parsed container the chunks' 8 + size sum to declared_size.
C3_SizesSumToDeclared ==
    pc = "done" => SumChunkBytes(chunks) = form_size

\* C4: in a parsed container with at least one chunk, chunks[0] is GEN8.
C4_Gen8First ==
    (pc = "done" /\ chunks # <<>>) => chunks[1].magic = TagGEN8

\* C5: a buffer whose first fitting FORM is at p > 0 parses as the buffer with
\* its first p bytes removed does.
C5_ParsesFromFormOffset ==
    (pc \in {"done", "error"} /\ FindForm(buf) > 0) =>
        LET p == FindForm(buf)
            stripped == ParseContainer(Slice(buf, p, Len(buf) - p))
        IN  /\ (pc = "done") = stripped.ok
            /\ stripped.ok => chunks = stripped.chunks

\* the parse failed in the chunk at err.at, whose 8-byte header is in the
\* buffer and whose tag is ASCII and not recognised
FailedInUnknownChunk ==
    /\ pc = "error"
    /\ err.at >= 8
    /\ CanRead(buf, err.at, 8)
    /\ IsAscii(Slice(buf, err.at, 4))
    /\ Slice(buf, err.at, 4) \notin KnownTags

\* C6 (as stated): a chunk with an unrecognised ASCII tag never makes the
\* parse fail.
C6_UnknownTagNeverFails == ~FailedInUnknownChunk

\* C6 (amended): an unrecognised chunk whose size bytes are all in the buffer
\* does not fail the parse, its body is exactly the size bytes after its
\* header and the next header is read right after them; the parse fails in
\* an unrecognised chunk only with EOFError, when fewer than size bytes
\* follow its header.
C6_UnknownTagKeptRaw ==
    /\ \A i \in 1..Len(chunks) :
          chunks[i].magic \notin KnownTags =>
              /\ chunks[i].body.kind = "raw"
              /\ chunks[i].body.val.data = Slice(buf, chunks[i].start + 8, chunks[i].size)
              /\ Len(chunks[i].body.val.data) = chunks[i].size
              /\ NextHeaderAt(i) = ChunkEnd(chunks[i])
    /\ FailedInUnknownChunk =>
          /\ err.kind = "EOFError"
          /\ ~CanRead(buf, err.at + 8, U4le(buf, err.at + 4))

\* an unrecognised chunk with a non-empty body, and a chunk parsed after it
C6_Witness ==
    /\ Len(chunks) >= 2
    /\ chunks[1].magic \notin KnownTags
    /\ chunks[1].size > 0

PointerOffsets(c) ==
    IF c.body.kind \in {"pointer_list", "seqn"} THEN c.body.val.offsets ELSE <<>>

\* C7: after a successful parse every offset of every pointer list is
\* non-zero and inside the buffer.
C7_PointersValid ==
    pc = "done" =>
        \A i \in 1..Len(chunks) :
            \A j \in 1..Len(PointerOffsets(chunks[i])) :
                /\ PointerOffsets(chunks[i])[j] # 0
                /\ PointerOffsets(chunks[i])[j] < Len(buf)

----------------------------------------------------------------------------
(* PointerList on its own: the sub-stream buf of an enclosing body, read   *)
(* from offset arg (0 for the pointer-list chunks, 4 for SEQN).            *)

\* number of u32 words in a generated body
MaxPLWords == 3

PLWordValues == {0, 1, 2, 3, 16}

PLInputs ==
    UNION { { Words(ws) \o t : ws \in [1..n -> PLWordValues],
                               t \in {<<>>, <<7>>, <<7, 7, 7>>} } :
            n \in 0..MaxPLWords }

InitPL ==
    /\ buf \in PLInputs
    /\ arg \in {0, 4}
    /\ pos = 0
    /\ pc = "pl_start"
    /\ form_size = 0
    /\ chunks = <<>>
    /\ err = NoErr
    /\ res = <<>>
    /\ instructions = <<>>
    /\ bytecode_version = 0

\* PointerList(io): the constructor runs _read
PointerListParse ==
    /\ pc = "pl_start"
    /\ res' = PointerListRead(buf, arg)
    /\ pc' = "pl_done"
    /\ UNCHANGED <<buf, pos, form_size, chunks, err, arg, instructions, bytecode_version>>

NextPL == PointerListParse

SpecPL == InitPL /\ [][NextPL]_vars

\* the bytes of the body from the list's start
PLRemaining == Len(buf) - arg

\* C8: the list is count (the first u32) followed by count offsets in stream
\* order; it parses iff 4 + 4*count bytes remain in the body, consuming
\* exactly those, and never returns fewer than count offsets.
C8_PointerListExact ==
    pc = "pl_done" =>
        /\ res.ok <=> (PLRemaining >= 4 /\ PLRemaining >= 4 + 4 * U4le(buf, arg))
        /\ res.ok =>
              /\ res.count = U4le(buf, arg)
              /\ Len(res.offsets) = res.count
              /\ res.pos - arg = 4 + 4 * res.count
              /\ \A i \in 1..res.count : res.offsets[i] = U4le(buf, arg + 4 * i)
        /\ ~res.ok => res.err = "EOFError"

\* a list of two offsets parsed from a body that holds more bytes
C8_Witness ==
    /\ pc = "pl_done"
    /\ res.ok
    /\ res.count = 2
    /\ res.offsets[1] # res.offsets[2]
    /\ PLRemaining > 4 + 4 * res.count

----------------------------------------------------------------------------
(* GmString and the resolution of a StringRef.                             *)

IsCont(b) == b >= 128 /\ b <= 191

\* length in bytes of the well-formed UTF-8 sequence that starts at s[i]
\* (1-based), 0 if there is none: bytes.decode("UTF-8") is strict
Utf8SeqLen(s, i) ==
    LET b == s[i]
        n == Len(s)
        c(k) == s[i + k]
    IN  IF b < 128 THEN 1
        ELSE IF b >= 194 /\ b <= 223
             THEN IF i + 1 <= n /\ IsCont(c(1)) THEN 2 ELSE 0
        ELSE IF b >= 224 /\ b <= 239
             THEN IF /\ i + 2 <= n
                     /\ c(1) >= (IF b = 224 THEN 160 ELSE 128)
                     /\ c(1) <= (IF b = 237 THEN 159 ELSE 191)
                     /\ IsCont(c(2))
                  THEN 3 ELSE 0
        ELSE IF b >= 240 /\ b <= 244
             THEN IF /\ i + 3 <= n
                     /\ c(1) >= (IF b = 240 THEN 144 ELSE 128)
                     /\ c(1) <= (IF b = 244 THEN 143 ELSE 191)
                     /\ IsCont(c(2))
                     /\ IsCont(c(3))
                  THEN 4 ELSE 0
        ELSE 0

\* the code point of the k-byte sequence at s[i]
Utf8CodePoint(s, i, k) ==
    IF k = 1 THEN s[i]
    ELSE IF k = 2 THEN (s[i] - 192) * 64 + (s[i + 1] - 128)
    ELSE IF k = 3 THEN (s[i] - 224) * 4096 + (s[i + 1] - 128) * 64 + (s[i + 2] - 128)
    ELSE (s[i] - 240) * 262144 + (s[i + 1] - 128) * 4096 + (s[i + 2] - 128) * 64
         + (s[i + 3] - 128)

\* bytes.decode("UTF-8") from s[i] on: [ok, cps], the code points
RECURSIVE Utf8DecodeFrom(_, _)
Utf8DecodeFrom(s, i) ==
    IF i > Len(s) THEN [ok |-> TRUE, cps |-> <<>>]
    ELSE LET k == Utf8SeqLen(s, i)
         IN  IF k = 0 THEN [ok |-> FALSE, cps |-> <<>>]
             ELSE LET rest == Utf8DecodeFrom(s, i + k)
                  IN  [ok |-> rest.ok,
                       cps |-> IF rest.ok THEN <<Utf8CodePoint(s, i, k)>> \o rest.cps
                               ELSE <<>>]

Utf8Decode(s) == Utf8DecodeFrom(s, 1)

\* str.encode("UTF-8")
RECURSIVE Utf8Encode(_)
Utf8Encode(cps) ==
    IF cps = <<>> THEN <<>>
    ELSE LET cp == Head(cps)
             enc == IF cp < 128 THEN <<cp>>
                    ELSE IF cp < 2048 THEN <<192 + (cp \div 64), 128 + (cp % 64)>>
                    ELSE IF cp < 65536
                         THEN <<224 + (cp \div 4096), 128 + ((cp \div 64) % 64),
                                128 + (cp % 64)>>
                    ELSE <<240 + (cp \div 262144), 128 + ((cp \div 4096) % 64),
                           128 + ((cp \div 64) % 64), 128 + (cp % 64)>>
         IN  enc \o Utf8Encode(Tail(cps))

\* (mutant) the terminator is read and not validated
TerminatorOk_any(t) == TRUE

\* GmString._read: the check of the terminator byte against 0x00
TerminatorOk(t) == t = 0

\* GmString._read at stream position p
GmStringRead(io, p) ==
    IF ~CanRead(io, p, 4) THEN Fail("EOFError")
    ELSE LET length == U4le(io, p)
         IN  IF ~CanRead(io, p + 4, length) THEN Fail("EOFError")
             ELSE LET value == Utf8Decode(Slice(io, p + 4, length))
                  IN  IF ~value.ok THEN Fail("UnicodeDecodeError")
                      ELSE IF ~CanRead(io, p + 4 + length, 1) THEN Fail("EOFError")
                      ELSE IF ~TerminatorOk(io[p + 4 + length + 1])
                           THEN Fail("ValidationNotEqualError")
                      ELSE [ok |-> TRUE, length |-> length, value |-> value.cps,
                            terminator |-> io[p + 4 + length + 1],
                            pos |-> p + 4 + length + 1]

\* resolving a StringRef v: seek to v - 4 and read a gm_string
ResolveString(s, v) == GmStringRead(s, v - 4)

\* number of bytes generated after the length prefix
MaxStrLen == 4

StrBytes == {0, 65, 195, 169, 226, 255}

\* StringRefs at or beyond the end of a buffer
StrEdgeInputs ==
    { <<<<>>, 4>>, <<<<1, 0>>, 4>>, <<LE32(0), 8>>, <<LE32(1) \o <<65, 0>>, 6>> }

\* buffers <prefix, length, bytes> with the StringRef just past the length
\* prefix, and the edge inputs
InitStr ==
    /\ \/ \E pre \in {<<>>, <<9, 9>>}, n \in 0..MaxStrLen, k \in 0..MaxStrLen :
             \E t \in [1..k -> StrBytes] :
                 /\ buf = pre \o LE32(n) \o t
                 /\ arg = Len(pre) + 4
       \/ \E in \in StrEdgeInputs : buf = in[1] /\ arg = in[2]
    /\ pos = 0
    /\ pc = "str_start"
    /\ form_size = 0
    /\ chunks = <<>>
    /\ err = NoErr
    /\ res = <<>>
    /\ instructions = <<>>
    /\ bytecode_version = 0

\* resolve_string(arg) on buf
ResolveStringRef ==
    /\ pc = "str_start"
    /\ res' = ResolveString(buf, arg)
    /\ pc' = "str_done"
    /\ UNCHANGED <<buf, pos, form_size, chunks, err, arg, instructions, bytecode_version>>

NextStr == ResolveStringRef

SpecStr == InitStr /\ [][NextStr]_vars

\* the length prefix at arg - 4, the characters and the terminator byte are
\* all inside the buffer
StrFits ==
    /\ CanRead(buf, arg - 4, 4)
    /\ CanRead(buf, arg, U4le(buf, arg - 4))
    /\ CanRead(buf, arg + U4le(buf, arg - 4), 1)

StrTerminated == buf[arg + U4le(buf, arg - 4) + 1] = 0

\* C9 (as stated): the read succeeds exactly when length, characters and
\* terminator fit in the buffer and the byte at V + length is 0x00.
C9_SucceedsIffFitsAndTerminated ==
    pc = "str_done" => (res.ok <=> (StrFits /\ StrTerminated))

\* C9 (amended): the read succeeds exactly when length, characters and
\* terminator fit, the characters are well-formed UTF-8 and the byte at
\* V + length is 0x00; on success the decoded characters are those of the
\* bytes [V, V + length) and 4 + length + 1 bytes are consumed; with
\* well-formed characters, a non-zero byte at V + length fails the read.
C9_StringRefResolves ==
    pc = "str_done" =>
        /\ res.ok <=> /\ StrFits
                      /\ Utf8Decode(Slice(buf, arg, U4le(buf, arg - 4))).ok
                      /\ StrTerminated
        /\ res.ok =>
              /\ res.length = U4le(buf, arg - 4)
              /\ Utf8Encode(res.value) = Slice(buf, arg, res.length)
              /\ res.pos - (arg - 4) = 4 + res.length + 1
        /\ (StrFits /\ ~StrTerminated) =>
              /\ ~res.ok
              /\ res.err \in {"ValidationNotEqualError", "UnicodeDecodeError"}

\* a string with a multi-byte character resolved from inside a buffer
C9_Witness ==
    /\ pc = "str_done"
    /\ res.ok
    /\ arg > 4
    /\ res.length = 2
    /\ Len(res.value) = 1
    /\ Len(buf) > arg + res.length + 1

----------------------------------------------------------------------------
(* CODE entries of bytecode_version >= 15 and the lengths of the entries   *)
(* of a shared bytecode blob.  buf is the file, arg the entry pointers of  *)
(* the CODE chunk's PointerList.                                           *)

\* (mutant) offset_in_blob taken from the bc_rel_addr field
CodeEntryV15Read_swapped(io, p) ==
    IF ~CanRead(io, p, 20) THEN Fail("EOFError")
    ELSE [ok |-> TRUE, name |-> U4le(io, p), blob_length |-> U4le(io, p + 4),
          locals_count |-> U2le(io, p + 8), args_count |-> U2le(io, p + 10),
          bc_rel_addr |-> S4le(io, p + 12), offset_in_blob |-> U4le(io, p + 8)]

\* (mutant) bc_rel_addr taken from the locals_count / args_count field
CodeEntryV15Read_reladdr(io, p) ==
    IF ~CanRead(io, p, 20) THEN Fail("EOFError")
    ELSE [ok |-> TRUE, name |-> U4le(io, p), blob_length |-> U4le(io, p + 4),
          locals_count |-> U2le(io, p + 8), args_count |-> U2le(io, p + 10),
          bc_rel_addr |-> S4le(io, p + 8), offset_in_blob |-> U4le(io, p + 16)]

\* CodeEntryV14._read at stream position p
CodeEntryV14Read(io, p) ==
    IF ~CanRead(io, p, 8) THEN Fail("EOFError")
    ELSE [ok |-> TRUE, name |-> U4le(io, p), length |-> U4le(io, p + 4)]

\* CodeEntryV15._read at stream position p
CodeEntryV15Read(io, p) ==
    IF ~CanRead(io, p, 20) THEN Fail("EOFError")
    ELSE [ok |-> TRUE, name |-> U4le(io, p), blob_length |-> U4le(io, p + 4),
          locals_count |-> U2le(io, p + 8), args_count |-> U2le(io, p + 10),
          bc_rel_addr |-> S4le(io, p + 12), offset_in_blob |-> U4le(io, p + 16)]

\* the entries at the pointers ptrs, in list order
ReadCodeEntriesAt(io, ptrs) ==
    LET es == [i \in 1..Len(ptrs) |-> CodeEntryV15Read(io, ptrs[i])]
    IN  IF \E i \in 1..Len(ptrs) : ~es[i].ok THEN Fail("EOFError")
        ELSE [ok |-> TRUE, entries |-> es]

\* blob_addr = (file offset of the bc_rel_addr field) + bc_rel_addr
BlobAddr(ptr, e) == ptr + 12 + e.bc_rel_addr

\* the entries that share entry i's blob
BlobGroup(es, ptrs, i) ==
    {j \in 1..Len(es) : BlobAddr(ptrs[j], es[j]) = BlobAddr(ptrs[i], es[i])}

\* the order of a group sorted by offset_in_blob ascending (stable)
SortsBefore(es, i, j) ==
    \/ es[i].offset_in_blob < es[j].offset_in_blob
    \/ es[i].offset_in_blob = es[j].offset_in_blob /\ i < j

\* the entries of i's group that follow i in sorted order
GroupAfter(es, ptrs, i) ==
    {j \in BlobGroup(es, ptrs, i) : SortsBefore(es, i, j)}

\* next.offset_in_blob - this.offset_in_blob, or blob_length - offset_in_blob
\* for the last entry of the group
ComputedLength(es, ptrs, i) ==
    LET after == GroupAfter(es, ptrs, i)
    IN  IF after = {} THEN es[i].blob_length - es[i].offset_in_blob
        ELSE LET next == CHOOSE j \in after :
                             \A k \in after \ {j} : SortsBefore(es, j, k)
             IN  es[next].offset_in_blob - es[i].offset_in_blob

\* the entries at the pointers ptrs of a file of bytecode_version <= 14
ReadCodeEntriesV14At(io, ptrs) ==
    LET es == [i \in 1..Len(ptrs) |-> CodeEntryV14Read(io, ptrs[i])]
    IN  IF \E i \in 1..Len(ptrs) : ~es[i].ok THEN Fail("EOFError")
        ELSE [ok |-> TRUE, entries |-> es]

\* entry format by bytecode_version: code_entry_v14 up to 14, code_entry_v15 from 15
ReadCodeEntriesFor(bcv, io, ptrs) ==
    IF bcv >= 15 THEN ReadCodeEntriesAt(io, ptrs) ELSE ReadCodeEntriesV14At(io, ptrs)

\* the byte length of entry i: computed from the gaps for V15 entries, the
\* stored length for V14 entries
EntryLength(bcv, es, ptrs, i) ==
    IF bcv >= 15 THEN ComputedLength(es, ptrs, i) ELSE es[i].length

\* number of code entries generated
MaxEntries == 3

LE16(n) == <<n % 256, (n \div 256) % 256>>

\* two's-complement little-endian bytes of a signed 32-bit value
SLE32(n) ==
    <<n % 256, (n \div 256) % 256, (n \div 65536) % 256, (n \div 16777216) % 256>>

\* what an entry header is generated from: the blob it points to, the
\* blob_length it reports and its offset_in_blob
EntryChoices ==
    [blob : {4, 200}, blob_length : {28, 40}, offset_in_blob : {0, 16, 28, 44}]

\* the 20-byte header of choice c placed at file offset ptr
EntryBytes(c, ptr) ==
    LE32(ptr + 1) \o LE32(c.blob_length) \o LE16(1) \o LE16(0)
    \o SLE32(c.blob - 12 - ptr) \o LE32(c.offset_in_blob)

\* V14 headers are generated with their length field (28 or 40) only
EntryChoicesFor(bcv) ==
    IF bcv >= 15 THEN EntryChoices
    ELSE {c \in EntryChoices : c.blob = 4 /\ c.offset_in_blob = 0}

InitCode ==
    /\ \E bcv \in {14, 15}, n \in 1..MaxEntries, cut \in {0, 3} :
          \E cs \in [1..n -> EntryChoicesFor(bcv)] :
              /\ bytecode_version = bcv
              /\ arg = [i \in 1..n |-> 20 * (i - 1)]
              /\ buf = LET all == Flatten([i \in 1..n |-> EntryBytes(cs[i], 20 * (i - 1))])
                       IN  Slice(all, 0, Len(all) - (IF bcv >= 15 THEN cut ELSE 5 * cut))
    /\ pos = 0
    /\ pc = "code_start"
    /\ form_size = 0
    /\ chunks = <<>>
    /\ err = NoErr
    /\ res = <<>>
    /\ instructions = <<>>

\* every header of the CODE pointer list is read
ReadCodeEntries ==
    /\ pc = "code_start"
    /\ res' = ReadCodeEntriesFor(bytecode_version, buf, arg)
    /\ pc' = IF ReadCodeEntriesFor(bytecode_version, buf, arg).ok
             THEN "code_read" ELSE "code_error"
    /\ UNCHANGED <<buf, pos, form_size, chunks, err, arg, instructions, bytecode_version>>

\* the post-processing pass: one length per entry
ComputeLengths ==
    /\ pc = "code_read"
    /\ res' = [ok |-> TRUE, entries |-> res.entries,
               lengths |-> [i \in 1..Len(res.entries) |->
                               EntryLength(bytecode_version, res.entries, arg, i)]]
    /\ pc' = "code_done"
    /\ UNCHANGED <<buf, pos, form_size, chunks, err, arg, instructions, bytecode_version>>

NextCode == ReadCodeEntries \/ ComputeLengths

SpecCode == InitCode /\ [][NextCode]_vars

\* the fields of the header at pointer arg[i], as stored in the file
FileBlobLength(i) == U4le(buf, arg[i] + 4)
FileOffsetInBlob(i) == U4le(buf, arg[i] + 16)
FileBlobAddr(i) == arg[i] + 12 + S4le(buf, arg[i] + 12)
FileGroup(i) == {j \in 1..Len(arg) : FileBlobAddr(j) = FileBlobAddr(i)}

RECURSIVE SumLengths(_, _)
SumLengths(S, lens) ==
    IF S = {} THEN 0
    ELSE LET j == CHOOSE x \in S : TRUE IN lens[j] + SumLengths(S \ {j}, lens)

\* the ranges [offset_in_blob, offset_in_blob + length) of the group G are
\* a partition of [0, n): no negative length, every byte in exactly one range
PartitionsBlob(G, n) ==
    /\ \A j \in G : res.lengths[j] >= 0
    /\ \A j \in G : FileOffsetInBlob(j) + res.lengths[j] <= n
    /\ \A b \in 0..(n - 1) :
          Cardinality({j \in G : /\ FileOffsetInBlob(j) <= b
                                 /\ b < FileOffsetInBlob(j) + res.lengths[j]}) = 1

\* the group reports one blob_length, starts at offset 0 and has no offset
\* beyond the blob
WellFormedGroup(G) ==
    /\ \A j, k \in G : FileBlobLength(j) = FileBlobLength(k)
    /\ \E j \in G : FileOffsetInBlob(j) = 0
    /\ \A j \in G : FileOffsetInBlob(j) <= FileBlobLength(j)

\* C10 (as stated): in every group of entries sharing a blob_addr the
\* computed lengths sum to blob_length and the ranges partition
\* [0, blob_length).
C10_GroupPartitionsBlob ==
    pc = "code_done" /\ bytecode_version >= 15 =>
        \A i \in 1..Len(arg) :
            /\ SumLengths(FileGroup(i), res.lengths) = FileBlobLength(i)
            /\ PartitionsBlob(FileGroup(i), FileBlobLength(i))

\* C10 (amended): in every group of entries sharing a blob_addr that reports
\* one blob_length, has an entry at offset_in_blob 0 and no offset_in_blob
\* beyond blob_length, the computed lengths sum to blob_length and the ranges
\* partition [0, blob_length).
C10_WellFormedGroupPartitionsBlob ==
    pc = "code_done" /\ bytecode_version >= 15 =>
        \A i \in 1..Len(arg) :
            WellFormedGroup(FileGroup(i)) =>
                /\ SumLengths(FileGroup(i), res.lengths) = FileBlobLength(i)
                /\ PartitionsBlob(FileGroup(i), FileBlobLength(i))

\* three entries share a blob of 40 bytes at offsets 16, 0 and 28
C10_Witness ==
    /\ pc = "code_done"
    /\ bytecode_version >= 15
    /\ Len(arg) = 3
    /\ FileGroup(1) = {1, 2, 3}
    /\ WellFormedGroup(FileGroup(1))
    /\ FileBlobLength(1) = 40
    /\ res.lengths = <<12, 16, 12>>

\* the entries of i's group that come after entry i when the group is sorted
\* by offset_in_blob (entries at one offset keep their list order)
FileLater(i) ==
    {j \in FileGroup(i) : \/ FileOffsetInBlob(j) > FileOffsetInBlob(i)
                          \/ FileOffsetInBlob(j) = FileOffsetInBlob(i) /\ j > i}

MinOf(S) == CHOOSE x \in S : \A y \in S : x <= y

\* C11: after the CODE headers are read, a V15 entry's computed length is the
\* distance to the next larger offset_in_blob among the entries with the same
\* blob_addr = entry pointer + 12 + bc_rel_addr, and blob_length -
\* offset_in_blob for the last entry of its group (offsets {0, 16, 28} in a
\* blob of 40 give 16, 12, 12); a V14 entry's length is its stored length.
C11_SortedGapLengths ==
    pc = "code_done" =>
        \A i \in 1..Len(arg) :
            IF bytecode_version >= 15
            THEN /\ FileLater(i) = {} =>
                        res.lengths[i] = FileBlobLength(i) - FileOffsetInBlob(i)
                 /\ FileLater(i) /= {} =>
                        res.lengths[i] =
                            MinOf({FileOffsetInBlob(j) : j \in FileLater(i)})
                            - FileOffsetInBlob(i)
                 /\ ( /\ {FileOffsetInBlob(j) : j \in FileGroup(i)} = {0, 16, 28}
                      /\ Cardinality(FileGroup(i)) = 3
                      /\ FileBlobLength(i) = 40
                      /\ \A j \in FileGroup(i) : FileBlobLength(j) = 40 )
                    => res.lengths[i] = (IF FileOffsetInBlob(i) = 0 THEN 16 ELSE 12)
            ELSE res.lengths[i] = U4le(buf, arg[i] + 4)

\* entries at offsets 0, 16, 28 of one 40-byte blob, in list order
C11_Witness ==
    /\ pc = "code_done"
    /\ bytecode_version >= 15
    /\ Len(arg) = 3
    /\ FileGroup(1) = {1, 2, 3}
    /\ \A j \in 1..3 : FileBlobLength(j) = 40
    /\ <<FileOffsetInBlob(1), FileOffsetInBlob(2), FileOffsetInBlob(3)>> = <<0, 16, 28>>
    /\ res.lengths = <<16, 12, 12>>

----------------------------------------------------------------------------
(* The GML bytecode decoder (gml_bytecode.py).  An instruction word is a   *)
(* u32 read little-endian; it is kept as its four bytes w[1..4] (w[4] the  *)
(* most significant), and every field is the shift and mask of the source  *)
(* applied to those bytes.                                                 *)

\* enum DataType
DataType_double == 0
DataType_float == 1
DataType_int32 == 2
DataType_int64 == 3
DataType_bool == 4
DataType_variable == 5
DataType_string == 6
DataType_int16 == 15

\* enum Opcode (bytecode_version >= 15), the members the decoder names
Opcode_pop == 69
Opcode_push_i == 132
Opcode_dup == 134
Opcode_b == 182
Opcode_bt == 183
Opcode_bf == 184
Opcode_push_env == 186
Opcode_pop_env == 187
Opcode_push == 192
Opcode_push_loc == 193
Opcode_push_glb == 194
Opcode_push_bltn == 195
Opcode_call == 217
Opcode_brk == 255

\* the values of enum Opcode
OpcodeValues ==
    (7..21) \cup {Opcode_pop, Opcode_push_i, Opcode_dup, 153, 156, 157, 158,
                  Opcode_b, Opcode_bt, Opcode_bf, Opcode_push_env, Opcode_pop_env,
                  Opcode_push, Opcode_push_loc, Opcode_push_glb, Opcode_push_bltn,
                  Opcode_call, Opcode_brk}

\* enum OpcodeV14 (bytecode_version <= 14)
OpcodeV14_pop == 65
OpcodeV14_b == 183
OpcodeV14_call == 218

\* the values of enum OpcodeV14
OpcodeV14Values ==
    (3..22) \cup {OpcodeV14_pop, 130, 157, 158, 159, OpcodeV14_b, 184, 185, 187, 188,
                  192, OpcodeV14_call, 255}

\* KaitaiStream.resolve_enum: the member when v is a value of the enum, the
\* bare integer otherwise; never an error
ResolveEnum(values, v) == [known |-> v \in values, value |-> v]

\* GmlInstruction.opcode: resolve_enum(GmlBytecode.Opcode, word >> 24 & 255);
\* bcv is the decoder's bytecode_version, which the property does not read
OpcodeOf(bcv, w) == ResolveEnum(OpcodeValues, w[4])

\* GmlInstruction.type1: word >> 16 & 15
Type1Of(w) == w[3] % 16

\* (mutant) the shift of type1: word >> 16 & 15
Type2Of_shift16(w) == w[3] % 16

\* GmlInstruction.type2: word >> 20 & 15
Type2Of(w) == w[3] \div 16

\* GmlInstruction.val16: word & 65535
Val16Of(w) == w[1] + 256 * w[2]

\* (mutant) one bit short: word & 4194303
BranchOffsetRawOf_22bits(w) == w[1] + 256 * w[2] + 65536 * (w[3] % 64)

\* (mutant) bit 23 kept: word & 16777215
BranchOffsetRawOf_24bits(w) == w[1] + 256 * w[2] + 65536 * w[3]

\* GmlInstruction.branch_offset_raw: word & 8388607
BranchOffsetRawOf(w) == w[1] + 256 * w[2] + 65536 * (w[3] % 128)

\* GmlInstruction.cmp_kind: word >> 8 & 255
CmpKindOf(w) == w[2]

\* (mutant) the operand word tied to the pushref signal instead of type1
BreakBodyWords_pushref(w) == IF Val16Of(w) = 65525 THEN 1 ELSE 0

\* BreakBody._read: extra = read_s4le() iff type1 == int32
BreakBodyWords(w) == IF Type1Of(w) = DataType_int32 THEN 1 ELSE 0

\* (mutant) a Call without operand word
CallBodyWords_none(w) == 0

\* CallBody._read: function_id = read_u4le()
CallBodyWords(w) == 1

\* PopBody._read: var_ref = VariableRef(io), VariableRef._read: raw = read_u4le()
PopBodyWords(w) == 1

\* PushBody._read: raw = read_bytes(0)
PushBodyWords(w) == 0

\* PushIBody._read: raw = read_bytes(0)
PushIBodyWords(w) == 0

\* DupBody._read, EmptyBody._read: raw = read_bytes(0)
EmptyBodyWords(w) == 0

\* (mutant) an opcode outside the table takes the following word as operand
BodyOf_unknownOperand(bcv, w) ==
    LET op == OpcodeOf(bcv, w)
    IN  IF ~op.known THEN [kind |-> "EmptyBody", words |-> 1]
        ELSE IF op.value = Opcode_brk THEN [kind |-> "BreakBody", words |-> BreakBodyWords(w)]
        ELSE IF op.value = Opcode_call THEN [kind |-> "CallBody", words |-> CallBodyWords(w)]
        ELSE IF op.value = Opcode_pop THEN [kind |-> "PopBody", words |-> PopBodyWords(w)]
        ELSE [kind |-> "EmptyBody", words |-> 0]

\* the dispatch of GmlInstruction._read on self.opcode: the body class and
\* the number of 4-byte words its _read consumes
BodyOf(bcv, w) ==
    LET op == OpcodeOf(bcv, w)
    IN  IF ~op.known THEN [kind |-> "EmptyBody", words |-> EmptyBodyWords(w)]
        ELSE IF op.value = Opcode_brk THEN [kind |-> "BreakBody", words |-> BreakBodyWords(w)]
        ELSE IF op.value = Opcode_call THEN [kind |-> "CallBody", words |-> CallBodyWords(w)]
        ELSE IF op.value = Opcode_dup THEN [kind |-> "DupBody", words |-> EmptyBodyWords(w)]
        ELSE IF op.value = Opcode_pop THEN [kind |-> "PopBody", words |-> PopBodyWords(w)]
        ELSE IF op.value \in {Opcode_push, Opcode_push_bltn, Opcode_push_glb, Opcode_push_loc}
             THEN [kind |-> "PushBody", words |-> PushBodyWords(w)]
        ELSE IF op.value = Opcode_push_i THEN [kind |-> "PushIBody", words |-> PushIBodyWords(w)]
        ELSE [kind |-> "EmptyBody", words |-> EmptyBodyWords(w)]

\* (mutant) the stream is left where the instruction began
NextInstructionPos_stuck(p, words) == p

\* the stream position after an instruction word and its body
NextInstructionPos(p, words) == p + 4 + 4 * words

\* GmlInstruction(io) at stream position p of a decoder of version bcv
InstructionRead(bcv, io, p) ==
    IF ~CanRead(io, p, 4) THEN Fail("EOFError")
    ELSE LET w == Slice(io, p, 4)
             b == BodyOf(bcv, w)
         IN  IF ~CanRead(io, p + 4, 4 * b.words) THEN Fail("EOFError")
             ELSE [ok |-> TRUE,
                   instr |-> [start |-> p, word |-> w, opcode |-> OpcodeOf(bcv, w),
                              body |-> b.kind, extra |-> Slice(io, p + 4, 4 * b.words)],
                   pos |-> NextInstructionPos(p, b.words)]

\* number of whole words in a generated byte range
MaxWords == 3

\* instruction and operand words the byte ranges are built from
WordCatalogue ==
    { <<0, 0, 0, Opcode_push>>,       \* Push Double
      <<255, 255, 5, Opcode_push_loc>>,  \* PushLoc Variable
      <<1, 0, 2, Opcode_call>>,       \* Call, one argument
      <<251, 255, 85, Opcode_pop>>,   \* Pop
      <<245, 255, 2, Opcode_brk>>,    \* Brk pushref, type1 Int32
      <<255, 255, 15, Opcode_brk>>,   \* Brk chkindex
      <<255, 255, 127, Opcode_b>>,    \* B -1
      <<24, 45, 68, 84>>,             \* low word of the f64 3.141592653589793
      <<251, 33, 9, 64>>,             \* high word of the f64 3.141592653589793
      <<0, 0, 5, OpcodeV14_pop>> }    \* Pop as bytecode_version <= 14 encodes it

\* bytes left over after the last whole word
PartialWords == {<<>>, <<1, 2>>}

InitBC ==
    /\ \E n \in 0..MaxWords, t \in PartialWords :
          \E ws \in [1..n -> WordCatalogue] : buf = Flatten(ws) \o t
    /\ bytecode_version \in {14, 15}
    /\ pos = 0
    /\ pc = "bc_loop"
    /\ form_size = 0
    /\ chunks = <<>>
    /\ err = NoErr
    /\ arg = 0
    /\ res = <<>>
    /\ instructions = <<>>

\* one iteration of GmlBytecode._read: instructions.append(GmlInstruction(io)).
\* An exception leaves the constructor: the caller receives no GmlBytecode.
ReadInstruction ==
    /\ pc = "bc_loop"
    /\ ~IsEof(buf, pos)
    /\ LET r == InstructionRead(bytecode_version, buf, pos)
       IN  IF r.ok
           THEN /\ instructions' = Append(instructions, r.instr)
                /\ pos' = r.pos
                /\ UNCHANGED <<pc, err, res>>
           ELSE /\ pc' = "bc_error"
                /\ err' = [kind |-> r.err, at |-> pos]
                /\ res' = [ok |-> FALSE, err |-> r.err, instructions |-> <<>>]
                /\ UNCHANGED <<instructions, pos>>
    /\ UNCHANGED <<buf, form_size, chunks, arg, bytecode_version>>

\* the loop ends at end of stream and the constructor returns the object
FinishDecode ==
    /\ pc = "bc_loop"
    /\ IsEof(buf, pos)
    /\ pc' = "bc_done"
    /\ res' = [ok |-> TRUE, err |-> "none", instructions |-> instructions]
    /\ UNCHANGED <<buf, pos, form_size, chunks, err, arg, instructions, bytecode_version>>

NextBC == ReadInstruction \/ FinishDecode

SpecBC == InitBC /\ [][NextBC]_vars

\* the decoder is run to the end of its loop
FairSpecBC == SpecBC /\ WF_vars(NextBC)

\* bytes an instruction was built from: its word and its body
InstrSize(ins) == 4 + Len(ins.extra)

RECURSIVE SumInstrSizes(_)
SumInstrSizes(is) == IF is = <<>> THEN 0 ELSE InstrSize(Head(is)) + SumInstrSizes(Tail(is))

\* the opcodes whose body is a PushBody
PushFamily == {Opcode_push, Opcode_push_loc, Opcode_push_glb, Opcode_push_bltn}

\* extra words of a Push-family instruction by type1: Double and Int64 two,
\* Float, Int32, Bool, String and Variable one, Int16 none
PushTailWords(t) ==
    IF t \in {DataType_double, DataType_int64} THEN 2
    ELSE IF t \in {DataType_float, DataType_int32, DataType_bool, DataType_string,
                   DataType_variable} THEN 1
    ELSE 0

\* the data types of enum DataType
DataTypeValues ==
    {DataType_double, DataType_float, DataType_int32, DataType_int64, DataType_bool,
     DataType_variable, DataType_string, DataType_int16}

\* C12: a Push, PushLoc, PushGlb or PushBltn instruction is followed by the
\* extra words its type1 asks for (2 for Double and Int64, 1 for Float, Int32,
\* Bool, String and Variable, 0 for Int16); the 12 bytes 00 00 00 C0 and an
\* 8-byte f64 decode to exactly one Push instruction of 12 bytes.
C12_PushTailByType1 ==
    bytecode_version >= 15 =>
        /\ \A k \in 1..Len(instructions) :
              ( /\ instructions[k].opcode.value \in PushFamily
                /\ Type1Of(instructions[k].word) \in DataTypeValues )
              => Len(instructions[k].extra)
                     = 4 * PushTailWords(Type1Of(instructions[k].word))
        /\ ( /\ pc = "bc_done"
             /\ buf = <<0, 0, 0, 192, 24, 45, 68, 84, 251, 33, 9, 64>> )
           => /\ Len(instructions) = 1
              /\ instructions[1].opcode.value = Opcode_push
              /\ InstrSize(instructions[1]) = 12

TailWords(w) ==
    IF w[4] = Opcode_call THEN 1
    ELSE IF w[4] = Opcode_push_i THEN (IF Type1Of(w) = DataType_int32 THEN 1 ELSE 0)
    ELSE IF w[4] \in PushFamily THEN PushTailWords(Type1Of(w))
    ELSE IF w[4] = Opcode_pop THEN 1
    ELSE IF w[4] = Opcode_brk THEN (IF Type1Of(w) = DataType_int32 THEN 1 ELSE 0)
    ELSE 0

\* the range io from offset p on is a whole number of instructions, each
\* with all of its extra words
RECURSIVE WholeInstructions(_, _)
WholeInstructions(io, p) ==
    IF p = Len(io) THEN TRUE
    ELSE IF ~CanRead(io, p, 4) THEN FALSE
    ELSE LET n == TailWords(Slice(io, p, 4))
         IN  CanRead(io, p + 4, 4 * n) /\ WholeInstructions(io, p + 4 + 4 * n)

\* C14: a byte range whose length is not a multiple of 4, or whose last
\* instruction lacks an extra operand word, is never decoded successfully.
C14_TruncatedRangeFails ==
    (pc = "bc_done" /\ bytecode_version >= 15) =>
        /\ Len(buf) % 4 = 0
        /\ WholeInstructions(buf, 0)

----------------------------------------------------------------------------
(* The fields of one instruction word.                                     *)

\* the lazily computed properties of a GmlInstruction whose word is w
InstructionFields(bcv, w) ==
    [word |-> w, opcode |-> OpcodeOf(bcv, w), type1 |-> Type1Of(w),
     type2 |-> Type2Of(w), val16 |-> Val16Of(w),
     branch_offset_raw |-> BranchOffsetRawOf(w), cmp_kind |-> CmpKindOf(w)]

\* the opcodes whose low 23 bits are a branch offset
BranchFamily == {Opcode_b, Opcode_bt, Opcode_bf, Opcode_push_env, Opcode_pop_env}

\* bytes the generated words are made of: low and middle byte, the byte of
\* bits 16-23, the opcode byte
LowBytes == {0, 1, 255}
TypeBytes == {0, 2, 63, 64, 127, 128, 191, 255}
OpcodeBytes == BranchFamily \cup {7, 21, Opcode_push, Opcode_brk, OpcodeV14_pop}

InitWord ==
    /\ \E b1 \in LowBytes, b2 \in LowBytes, b3 \in TypeBytes, b4 \in OpcodeBytes :
          buf = <<b1, b2, b3, b4>>
    /\ bytecode_version \in {14, 15}
    /\ pos = 0
    /\ pc = "word_start"
    /\ form_size = 0
    /\ chunks = <<>>
    /\ err = NoErr
    /\ arg = 0
    /\ res = <<>>
    /\ instructions = <<>>

\* the word is read and its properties evaluated
DecodeWord ==
    /\ pc = "word_start"
    /\ res' = InstructionFields(bytecode_version, Slice(buf, 0, 4))
    /\ pos' = 4
    /\ pc' = "word_done"
    /\ UNCHANGED <<buf, form_size, chunks, err, arg, instructions, bytecode_version>>

NextWord == DecodeWord

SpecWord == InitWord /\ [][NextWord]_vars

\* a 23-bit value sign-extended from bit 22
SignExtend23(raw) == IF raw >= 4194304 THEN raw - 8388608 ELSE raw

\* C15: for B, Bt, Bf, PushEnv and PopEnv the branch offset is the low 23
\* bits of the word sign-extended from bit 22, a signed count of words:
\* 0x7FFFFF is -1, 0x400000 is -(2^22), 0x3FFFFF is 2^22 - 1; the byte offset
\* from the start of the instruction is 4 times that.
C15_BranchOffsetSignExtended ==
    (pc = "word_done" /\ buf[4] \in BranchFamily) =>
        LET low23 == buf[1] + 256 * buf[2] + 65536 * (buf[3] % 128)
            words == SignExtend23(res.branch_offset_raw)
        IN  /\ words >= -4194304 /\ words <= 4194303
            /\ (words - low23) % 8388608 = 0
            /\ (buf[3] % 128 >= 64) <=> (words < 0)
            /\ low23 = 8388607 => words = -1 /\ 4 * words = -4
            /\ low23 = 4194304 => words = -4194304 /\ 4 * words = -16777216
            /\ low23 = 4194303 => words = 4194303 /\ 4 * words = 16777212

\* a B whose low 23 bits are 0x7FFFFF, with bit 23 of the word set as well
C15_Witness ==
    /\ pc = "word_done"
    /\ buf = <<255, 255, 255, Opcode_b>>
    /\ res.branch_offset_raw = 8388607
    /\ SignExtend23(res.branch_offset_raw) = -1

\* C16: an instruction word whose opcode byte is not in the decoder's opcode
\* table never makes decoding fail: it becomes an instruction that carries
\* the raw opcode byte and has no operand, it consumes exactly 4 bytes, and
\* decoding continues at the next word.
C16_UnknownOpcodeSkipsOneWord ==
    /\ \A k \in 1..Len(instructions) :
          buf[instructions[k].start + 4] \notin OpcodeValues =>
              /\ ~instructions[k].opcode.known
              /\ instructions[k].opcode.value = buf[instructions[k].start + 4]
              /\ instructions[k].body = "EmptyBody"
              /\ InstrSize(instructions[k]) = 4
              /\ k < Len(instructions) =>
                     instructions[k + 1].start = instructions[k].start + 4
              /\ k = Len(instructions) => pos = instructions[k].start + 4
    /\ (pc = "bc_error" /\ CanRead(buf, err.at, 4)) => buf[err.at + 4] \in OpcodeValues

\* the word with opcode byte 84 is kept as an unknown instruction and the
\* Call after it is decoded with its operand
C16_Witness ==
    /\ pc = "bc_done"
    /\ Len(instructions) = 2
    /\ instructions[1].opcode = [known |-> FALSE, value |-> 84]
    /\ instructions[2].start = 4
    /\ instructions[2].body = "CallBody"

\* C17: when decoding fails at some instruction, the instructions decoded
\* before it remain available to the caller, followed by one terminating
\* error, and no further instruction is produced.
C17_PriorInstructionsKept ==
    pc = "bc_error" =>
        /\ ~res.ok
        /\ res.err # "none"
        /\ res.instructions = instructions

\* the chunk at root-stream position p is read whole (header, ASCII tag and
\* size body bytes) and its sub-parser raises
SubParserFailedAt(s, p) ==
    /\ CanRead(s, p, 8)
    /\ IsAscii(Slice(s, p, 4))
    /\ CanRead(s, p + 8, U4le(s, p + 4))
    /\ ~SubParse(Slice(s, p, 4), Slice(s, p + 8, U4le(s, p + 4))).ok

\* C18: a tolerant container parser is not aborted by the failure of one
\* chunk's sub-parser (the chunk is kept raw with an error tag and the chunks
\* after it are parsed); a strict one halts at the first error.  GameMakerData
\* takes no configuration: its one behaviour is its behaviour under either.
C18_TolerantKeepsFailedChunk ==
    /\ ~(pc = "error" /\ err.at >= 8 /\ SubParserFailedAt(buf, err.at))
    /\ pc = "error" => err.kind # "none"

\* the opcode table of a decoder constructed with bytecode_version bcv
OpcodeTableFor(bcv) == IF bcv >= 15 THEN OpcodeValues ELSE OpcodeV14Values

\* the Pop opcode of that table
PopOpcodeFor(bcv) == IF bcv >= 15 THEN Opcode_pop ELSE OpcodeV14_pop

\* C19: the opcode table is the one of the bytecode_version given at
\* construction: the first word's opcode byte is known exactly when it is in
\* that version's table, and it is a Pop with its one extra word exactly when
\* it is that table's Pop (65 up to version 14, 69 from version 15).
C19_TableByVersion ==
    Len(instructions) >= 1 =>
        /\ instructions[1].opcode.known <=> buf[4] \in OpcodeTableFor(bytecode_version)
        /\ buf[4] = PopOpcodeFor(bytecode_version) =>
               instructions[1].body = "PopBody" /\ InstrSize(instructions[1]) = 8
        /\ buf[4] \in {Opcode_pop, OpcodeV14_pop} \ {PopOpcodeFor(bytecode_version)} =>
               instructions[1].body = "EmptyBody" /\ InstrSize(instructions[1]) = 4

----------------------------------------------------------------------------
(* The VARI body.  VariBody._read keeps the body as raw bytes (data =       *)
(* read_bytes_full()); the header and the entries are decoded from it with  *)
(* VariHeaderV15, VariEntryV14 and VariEntryV15 according to the            *)
(* bytecode_version of GEN8.  buf is the body.                              *)

\* VariHeaderV15._read
VariHeaderV15Read(io) ==
    IF ~CanRead(io, 0, 12) THEN Fail("EOFError")
    ELSE [ok |-> TRUE, instance_var_count |-> U4le(io, 0),
          instance_var_count_max |-> U4le(io, 4),
          max_local_var_count |-> U4le(io, 8), pos |-> 12]

\* VariEntryV14._read at stream position p
VariEntryV14Read(io, p) ==
    IF ~CanRead(io, p, 12) THEN Fail("EOFError")
    ELSE [ok |-> TRUE, pos |-> p + 12,
          entry |-> [name |-> U4le(io, p), occurrences |-> U4le(io, p + 4),
                     first_address |-> S4le(io, p + 8)]]

\* (mutant) first_address is not read
VariEntryV15Read_short(io, p) ==
    IF ~CanRead(io, p, 16) THEN Fail("EOFError")
    ELSE [ok |-> TRUE, pos |-> p + 16,
          entry |-> [name |-> U4le(io, p), instance_type |-> S4le(io, p + 4),
                     var_id |-> S4le(io, p + 8), occurrences |-> U4le(io, p + 12),
                     first_address |-> 0]]

\* VariEntryV15._read at stream position p
VariEntryV15Read(io, p) ==
    IF ~CanRead(io, p, 20) THEN Fail("EOFError")
    ELSE [ok |-> TRUE, pos |-> p + 20,
          entry |-> [name |-> U4le(io, p), instance_type |-> S4le(io, p + 4),
                     var_id |-> S4le(io, p + 8), occurrences |-> U4le(io, p + 12),
                     first_address |-> S4le(io, p + 16)]]

\* the entry class of the version
VariEntryRead(bcv, io, p) ==
    IF bcv >= 15 THEN VariEntryV15Read(io, p) ELSE VariEntryV14Read(io, p)

\* largest VARI body generated, in bytes
MaxVariSize == 112

InitVari ==
    /\ \E n \in 0..MaxVariSize : buf = [i \in 1..n |-> i % 5]
    /\ bytecode_version \in {14, 15}
    /\ pos = 0
    /\ pc = "vari_start"
    /\ form_size = 0
    /\ chunks = <<>>
    /\ err = NoErr
    /\ arg = 0
    /\ res = <<>>
    /\ instructions = <<>>

\* an empty body is the Native variant; otherwise the 12-byte header is read
\* when bytecode_version >= 15 and the entries follow
VariBegin ==
    /\ pc = "vari_start"
    /\ IF Len(buf) = 0
       THEN /\ res' = [variant |-> "Native", entries |-> <<>>]
            /\ pc' = "vari_done"
            /\ UNCHANGED <<pos, err>>
       ELSE IF bytecode_version >= 15
       THEN IF VariHeaderV15Read(buf).ok
            THEN /\ res' = [variant |-> "V15", entries |-> <<>>]
                 /\ pos' = VariHeaderV15Read(buf).pos
                 /\ pc' = "vari_loop"
                 /\ err' = err
            ELSE /\ res' = [variant |-> "Error", entries |-> <<>>]
                 /\ err' = [kind |-> VariHeaderV15Read(buf).err, at |-> 0]
                 /\ pc' = "vari_error"
                 /\ pos' = pos
       ELSE /\ res' = [variant |-> "V14", entries |-> <<>>]
            /\ pc' = "vari_loop"
            /\ UNCHANGED <<pos, err>>
    /\ UNCHANGED <<buf, form_size, chunks, arg, instructions, bytecode_version>>

\* one more entry of the flat array, while a whole entry remains
ReadVariEntry ==
    /\ pc = "vari_loop"
    /\ VariEntryRead(bytecode_version, buf, pos).ok
    /\ res' = [res EXCEPT !.entries =
                   Append(@, VariEntryRead(bytecode_version, buf, pos).entry)]
    /\ pos' = VariEntryRead(bytecode_version, buf, pos).pos
    /\ UNCHANGED <<buf, pc, form_size, chunks, err, arg, instructions, bytecode_version>>

\* fewer bytes than an entry remain
VariFinish ==
    /\ pc = "vari_loop"
    /\ ~VariEntryRead(bytecode_version, buf, pos).ok
    /\ pc' = "vari_done"
    /\ UNCHANGED <<buf, pos, form_size, chunks, err, arg, res, instructions, bytecode_version>>

NextVari == VariBegin \/ ReadVariEntry \/ VariFinish

SpecVari == InitVari /\ [][NextVari]_vars

\* integer division that rounds towards zero
TruncDiv(a, b) == IF a >= 0 THEN a \div b ELSE -((-a) \div b)

\* C20: a non-empty VARI body of body_size bytes has (body_size - 12) / 20
\* entries when bytecode_version >= 15 and body_size / 12 when it is <= 14,
\* by integer division; no body_size makes the parse do anything but end with
\* those entries or with a reported truncation (112 bytes: 5 entries as V15,
\* 9 as V14); an empty body is the Native variant without entries.
C20_VariEntryCount ==
    /\ pc \in {"vari_start", "vari_loop", "vari_done", "vari_error"}
    /\ pc = "vari_loop" =>
           /\ pos <= Len(buf)
           /\ \/ ENABLED ReadVariEntry
              \/ ENABLED VariFinish
    /\ pc \in {"vari_done", "vari_error"} =>
           /\ Len(buf) = 0 => res.variant = "Native" /\ res.entries = <<>>
           /\ (Len(buf) > 0 /\ bytecode_version >= 15) =>
                  Len(res.entries) = TruncDiv(Len(buf) - 12, 20)
           /\ (Len(buf) > 0 /\ bytecode_version <= 14) =>
                  res.variant = "V14" /\ Len(res.entries) = TruncDiv(Len(buf), 12)
           /\ Len(buf) = 112 =>
                  Len(res.entries) = (IF bytecode_version >= 15 THEN 5 ELSE 9)
    /\ pc = "vari_error" =>
           /\ err.kind = "EOFError"
           /\ bytecode_version >= 15 /\ Len(buf) > 0 /\ Len(buf) < 12
    /\ pc = "vari_done" /\ Len(buf) > 0 /\ bytecode_version >= 15 =>
           res.variant = "V15" /\ Len(buf) >= 12

\* the 112-byte body read as bytecode_version 15: a header and 5 entries
C20_Witness ==
    /\ pc = "vari_done"
    /\ Len(buf) = 112
    /\ bytecode_version = 15
    /\ Len(res.entries) = 5
    /\ pos = 112

----------------------------------------------------------------------------
(* The chunk sub-parsers on bodies whose count fields agree or disagree    *)
(* with the body size: one chunk of each counted kind, alone or followed   *)
(* by another chunk, read by the container parser.                         *)

\* number of entries a generated list holds
MaxItems == 2

\* the u32 entries of a generated list
ItemList(n) == [i \in 1..n |-> 16 + 4 * i]

\* the (name, value) entries of a generated LANG / OPTN array, flattened
PairList(n) == [i \in 1..(2 * n) |-> 30 + i]

\* the counts announced for a list of n entries: one less, n, one more
AnnouncedCounts(n) == {a \in {n - 1, n, n + 1} : a >= 0}

\* the first 124 bytes of a GEN8 body: everything before debugger_port
Gen8Head(bcv, ide) ==
    <<1, bcv, 0, 0>> \o Words(<<11, 12, 13, 14, 77>>) \o Zeros(16)
    \o Words(<<15, ide, 3, 0, 9, 640, 480, 0, 0>>) \o Zeros(16) \o Zeros(8)
    \o LE32(16) \o Zeros(8) \o Zeros(8) \o <<255, 255, 255, 255>>

SeqnChunks ==
    UNION { { ChunkBytes(TagSEQN, 8 + 4 * n, Words(<<v, a>>) \o Words(ItemList(n))) :
                v \in {0, 1, 2}, a \in AnnouncedCounts(n) } : n \in 0..MaxItems }
    \cup { ChunkBytes(TagSEQN, 0, <<>>), ChunkBytes(TagSEQN, 4, Words(<<1>>)) }

PointerChunks ==
    UNION { { ChunkBytes(t, 4 + 4 * n, Words(<<a>>) \o Words(ItemList(n))) :
                t \in PointerListTags, a \in AnnouncedCounts(n) } : n \in 0..MaxItems }

GlobChunks ==
    UNION { { ChunkBytes(TagGLOB, 4 + 4 * n, Words(<<a>>) \o Words(ItemList(n))) :
                a \in AnnouncedCounts(n) } : n \in 0..MaxItems }

LangChunks ==
    UNION { { ChunkBytes(TagLANG, 8 + 8 * n, Words(<<e, a>>) \o Words(PairList(n))) :
                e \in {0, 5}, a \in AnnouncedCounts(n) } : n \in 0..MaxItems }

OptnChunks ==
    UNION { { ChunkBytes(TagOPTN, 64 + 8 * n,
                         Words(<<1, 2>>) \o Zeros(52) \o Words(<<a>>) \o Words(PairList(n))) :
                a \in AnnouncedCounts(n) } : n \in 0..MaxItems }

Gen8Chunks ==
    UNION { { LET body == Gen8Head(bcv, ide)
                          \o (IF bcv >= 14 THEN LE32(port) ELSE <<>>)
                          \o Words(<<a>>) \o Words(ItemList(n)) \o extra
              IN  ChunkBytes(TagGEN8, Len(body), body) :
                bcv \in {13, 14, 15}, ide \in {1, 2}, port \in {0, 6502},
                a \in AnnouncedCounts(n), extra \in {<<>>, <<9, 9>>} } : n \in 0..MaxItems }

BodyChunks ==
    SeqnChunks \cup PointerChunks \cup GlobChunks \cup LangChunks \cup OptnChunks
    \cup Gen8Chunks

\* what follows the chunk in the buffer: nothing, or a chunk of 16 body bytes
Followers == {<<>>, ChunkBytes(TagUnknown, 16, Words(<<16, 20, 24, 28>>))}

InitBody ==
    /\ \E c \in BodyChunks, f \in Followers :
          buf = TagFORM \o LE32(Len(c) + Len(f)) \o c \o f
    /\ pos = 0
    /\ pc = "start"
    /\ form_size = 0
    /\ chunks = <<>>
    /\ err = NoErr
    /\ arg = 0
    /\ res = <<>>
    /\ instructions = <<>>
    /\ bytecode_version = 0

SpecBody == InitBody /\ [][Next]_vars

\* the u32 entries at offset p of the buffer agree with a parsed list
ListAt(p, items) == \A k \in 1..Len(items) : items[k] = U4le(buf, p + 4 * (k - 1))

\* C21: in a SEQN body the first u32 is the version and the pointer list
\* starts at body offset 4 (count at body bytes 4..8, offsets from 8); the
\* body "version 1, count 0" parses to version 1 with an empty list; every
\* other pointer-list chunk has its count at body offset 0.
C21_SeqnVersionPrefix ==
    /\ \A i \in 1..Len(chunks) :
          LET c == chunks[i]
              b == c.start + 8
          IN  /\ c.magic = TagSEQN =>
                    /\ c.body.kind = "seqn"
                    /\ c.body.val.version = U4le(buf, b)
                    /\ c.body.val.count = U4le(buf, b + 4)
                    /\ Len(c.body.val.offsets) = c.body.val.count
                    /\ ListAt(b + 8, c.body.val.offsets)
                    /\ Slice(buf, b, c.size) = Words(<<1, 0>>) =>
                          c.body.val.version = 1 /\ c.body.val.offsets = <<>>
              /\ c.magic \in PointerListTags =>
                    /\ c.body.kind = "pointer_list"
                    /\ c.body.val.count = U4le(buf, b)
                    /\ Len(c.body.val.offsets) = c.body.val.count
                    /\ ListAt(b + 4, c.body.val.offsets)
    /\ ~(/\ pc = "error"
          /\ err.at >= 8
          /\ CanRead(buf, err.at, 16)
          /\ Slice(buf, err.at, 16) = ChunkBytes(TagSEQN, 8, Words(<<1, 0>>)))

\* the SEQN body "version 1, count 0" parsed, and a SEQN with two sequences
C21_Witness ==
    /\ pc = "done"
    /\ Len(chunks) = 2
    /\ chunks[1].magic = TagSEQN
    /\ Slice(buf, 16, chunks[1].size) = Words(<<1, 0>>)
    /\ chunks[1].body.val.version = 1
    /\ chunks[1].body.val.offsets = <<>>

\* C22: in the GEN8 body debugger_port is read (4 bytes, before room_count)
\* exactly when bytecode_version >= 14, so room_count is at body offset 128
\* then and at 124 otherwise; room_order has exactly room_count entries;
\* gms2_extra is read exactly when ide_version_major >= 2 and is then all
\* bytes from the end of room_order to the end of the chunk body.
C22_Gen8ConditionalFields ==
    \A i \in 1..Len(chunks) :
        LET c == chunks[i]
            b == c.start + 8
            v == c.body.val
            rc_at == IF buf[b + 2] >= 14 THEN 128 ELSE 124
            rooms_end == rc_at + 4 + 4 * U4le(buf, b + rc_at)
        IN  c.magic = TagGEN8 =>
              /\ c.body.kind = "gen8"
              /\ v.bytecode_version = buf[b + 2]
              /\ v.ide_version_major = U4le(buf, b + 44)
              /\ v.has_debugger_port <=> v.bytecode_version >= 14
              /\ v.has_debugger_port => v.debugger_port = U4le(buf, b + 124)
              /\ v.room_count = U4le(buf, b + rc_at)
              /\ Len(v.room_order) = v.room_count
              /\ ListAt(b + rc_at + 4, v.room_order)
              /\ v.has_gms2_extra <=> v.ide_version_major >= 2
              /\ v.has_gms2_extra =>
                    /\ v.gms2_extra = Slice(buf, b + rooms_end, c.size - rooms_end)
                    /\ c.body.consumed = c.size
              /\ ~v.has_gms2_extra => c.body.consumed = rooms_end

\* a GEN8 of bytecode_version 14 and IDE major 2 with a debugger port, two
\* rooms and two bytes after room_order
C22_Witness ==
    /\ pc = "done"
    /\ Len(chunks) = 2
    /\ chunks[1].magic = TagGEN8
    /\ chunks[1].body.val.bytecode_version = 14
    /\ chunks[1].body.val.debugger_port = 6502
    /\ chunks[1].body.val.room_order = <<20, 24>>
    /\ chunks[1].body.val.gms2_extra = <<9, 9>>

\* the bytes the fixed-size fields of a body take, up to and including its
\* count field
FixedPart(magic, io) ==
    IF magic \in PointerListTags \/ magic = TagGLOB THEN 4
    ELSE IF magic = TagSEQN \/ magic = TagLANG THEN 8
    ELSE IF magic = TagOPTN THEN 64
    ELSE IF magic = TagGEN8
         THEN (IF Len(io) >= 2 THEN Gen8RoomCountAt(io[2]) + 4 ELSE 124)
    ELSE 0

\* the bytes a body must hold for what its count field announces
BodyDemand(magic, io) ==
    LET fixed == FixedPart(magic, io)
    IN  IF Len(io) < fixed THEN fixed
        ELSE IF magic \in PointerListTags \/ magic = TagGLOB \/ magic = TagSEQN
                \/ magic = TagGEN8
             THEN fixed + 4 * U4le(io, fixed - 4)
        ELSE IF magic = TagLANG \/ magic = TagOPTN
             THEN fixed + 8 * U4le(io, fixed - 4)
        ELSE 0

\* the chunk header at p is whole, its tag is ASCII and its body fits
ChunkFits(p) ==
    /\ CanRead(buf, p, 8)
    /\ IsAscii(Slice(buf, p, 4))
    /\ CanRead(buf, p + 8, U4le(buf, p + 4))

\* C23: the reads of a chunk's sub-parser are confined to the chunk's body:
\* a count field that asks for more data than the body holds (pointer-list
\* count, GLOB count, LANG actual_count, GEN8 room_count, OPTN constant_count)
\* makes the parse fail with a truncation error, also when the bytes of a
\* following chunk would satisfy it; no parsed chunk consumed more than its
\* body.
C23_SubParserConfined ==
    /\ \A i \in 1..Len(chunks) :
          LET c == chunks[i]
          IN  /\ BodyDemand(c.magic, Slice(buf, c.start + 8, c.size)) <= c.size
              /\ c.body.consumed <= c.size
    /\ (/\ pc = "error"
         /\ err.at >= 8
         /\ ChunkFits(err.at)
         /\ BodyDemand(Slice(buf, err.at, 4),
                       Slice(buf, err.at + 8, U4le(buf, err.at + 4)))
               > U4le(buf, err.at + 4))
        => err.kind = "EOFError"
    /\ (pc = "done" /\ Len(buf) > 8 /\ ChunkFits(8)) =>
          BodyDemand(Slice(buf, 8, 4), Slice(buf, 16, U4le(buf, 12))) <= U4le(buf, 12)

\* a LANG chunk that announces one entry more than its body holds, followed
\* by a chunk whose bytes would supply the entry: the parse fails at the LANG
C23_Witness ==
    /\ pc = "error"
    /\ err = [kind |-> "EOFError", at |-> 8]
    /\ Slice(buf, 8, 4) = TagLANG
    /\ U4le(buf, 12) = 16
    /\ U4le(buf, 20) = 2
    /\ Len(buf) = 8 + 24 + 24
    /\ chunks = <<>>

----------------------------------------------------------------------------
(* The container parser on buffers whose chunks are followed by 0 to       *)
(* MaxTrail bytes of a further chunk header, under several declared sizes. *)

\* number of chunks before the trailing bytes
MaxTileChunks == 2

\* number of bytes after the last complete chunk
MaxTrail == 8

\* the chunks a generated buffer is laid out from
TileChunks ==
    { ChunkBytes(TagUnknown, 0, <<>>),
      ChunkBytes(TagUnknown, 3, <<1, 2, 3>>),
      ChunkBytes(TagSTRG, 4, Words(<<0>>)) }

\* the header of a chunk of 9 body bytes and the first bytes of its body
TrailBytes == ChunkBytes(TagUnknown, 9, <<1, 2, 3, 4, 5, 6, 7, 8>>)

InitTile ==
    /\ \E n \in 0..MaxTileChunks, k \in 0..MaxTrail :
          \E l \in [1..n -> TileChunks] :
             \E d \in {0, Len(Flatten(l)), Len(Flatten(l)) + k, 1000} :
                buf = TagFORM \o LE32(d) \o Flatten(l) \o SubSeq(TrailBytes, 1, k)
    /\ pos = 0
    /\ pc = "start"
    /\ form_size = 0
    /\ chunks = <<>>
    /\ err = NoErr
    /\ arg = 0
    /\ res = <<>>
    /\ instructions = <<>>
    /\ bytecode_version = 0

SpecTile == InitTile /\ [][Next]_vars

\* the end of the last complete chunk: from p, follow the headers as long as
\* a whole header and the whole body it announces lie in the buffer
RECURSIVE LastCompleteEnd(_, _)
LastCompleteEnd(s, p) ==
    IF CanRead(s, p, 8) /\ CanRead(s, p + 8, U4le(s, p + 4))
    THEN LastCompleteEnd(s, p + 8 + U4le(s, p + 4))
    ELSE p

\* C30: when the container parser returns successfully the parsed chunks
\* tile the buffer from offset 8 to its end, the sum of (8 + size) being
\* buffer_len - 8 whatever the declared size; a buffer with 1 to 7 bytes
\* left after the last complete chunk, or with a chunk whose size exceeds
\* the bytes remaining, makes the parse fail and returns no chunks.
C30_ChunksTileBuffer ==
    LET left == Len(buf) - LastCompleteEnd(buf, 8)
    IN  /\ pc = "done" =>
              /\ SumChunkBytes(chunks) = Len(buf) - 8
              /\ \A i \in 1..Len(chunks) :
                    chunks[i].start = 8 + SumChunkBytes(SubSeq(chunks, 1, i - 1))
              /\ left = 0
        /\ (pc \in {"done", "error"} /\ left > 0) =>
              /\ pc = "error"
              /\ err.kind # "none"

\* two chunks returned from a buffer whose FORM header declares 0 bytes
C30_Witness ==
    /\ pc = "done"
    /\ form_size = 0
    /\ Len(chunks) = 2
    /\ SumChunkBytes(chunks) = Len(buf) - 8

----------------------------------------------------------------------------
(* Claims about the fields of one instruction word (specification          *)
(* SpecWord).  A word is compared by its 16-bit halves: bits 15-0 are      *)
(* U2le(buf, 0) and bits 31-16 are U2le(buf, 2).                           *)

\* C24: opcode = (word >> 24) & 0xFF, type2 = (word >> 20) & 0x0F,
\* type1 = (word >> 16) & 0x0F, val16 = word & 0xFFFF: each field lies in
\* the range of its width and the four together recompose the word,
\* word = (opcode << 24) | (type2 << 20) | (type1 << 16) | val16.
C24_FieldsPartitionWord ==
    pc = "word_done" =>
        /\ res.opcode.value \in 0..255
        /\ res.type2 \in 0..15
        /\ res.type1 \in 0..15
        /\ res.val16 \in 0..65535
        /\ res.val16 = U2le(buf, 0)
        /\ 256 * res.opcode.value + 16 * res.type2 + res.type1 = U2le(buf, 2)

\* the word 0xC0BFFFFF: opcode 192, type2 11, type1 15, val16 0xFFFF
C24_Witness ==
    /\ pc = "word_done"
    /\ buf = <<255, 255, 191, Opcode_push>>
    /\ res.opcode.value = 192
    /\ res.type2 = 11
    /\ res.type1 = 15
    /\ res.val16 = 65535

\* C29 as stated: the instruction word 0xB6FFFFFF decodes to opcode PushEnv
\* (186) with low 23 bits 0x7FFFFF, and its branch offset is -1 word, -4
\* bytes from the start of the instruction.
C29_PushEnvMinusOne ==
    (pc = "word_done" /\ buf = <<255, 255, 255, 182>>) =>
        /\ res.opcode = [known |-> TRUE, value |-> Opcode_push_env]
        /\ res.branch_offset_raw = 8388607
        /\ SignExtend23(res.branch_offset_raw) = -1
        /\ pos - 4 + 4 * SignExtend23(res.branch_offset_raw) = -4

\* C29 (amended): the instruction word 0xB6FFFFFF decodes to opcode B (182)
\* with low 23 bits 0x7FFFFF, and its branch offset is -1 word, -4 bytes
\* from the start of the instruction.
C29_BMinusOne ==
    (pc = "word_done" /\ buf = <<255, 255, 255, 182>>) =>
        /\ res.opcode = [known |-> TRUE, value |-> Opcode_b]
        /\ res.branch_offset_raw = 8388607
        /\ SignExtend23(res.branch_offset_raw) = -1
        /\ pos - 4 + 4 * SignExtend23(res.branch_offset_raw) = -4

\* the word 0xB6FFFFFF decoded by a decoder of bytecode_version 15
C29_Witness ==
    /\ pc = "word_done"
    /\ bytecode_version = 15
    /\ buf = <<255, 255, 255, 182>>
    /\ res.opcode.value = Opcode_b
    /\ 4 * SignExtend23(res.branch_offset_raw) = -4

----------------------------------------------------------------------------
(* The decoder on one instruction word of an operand-carrying opcode, with *)
(* every combination of type and val16 bytes, followed by 0 to MaxTail     *)
(* further words.                                                          *)

\* number of words after the first instruction word
MaxTail == 2

TailOpcodes == {Opcode_push_i, Opcode_call, Opcode_pop, Opcode_brk, Opcode_dup}

\* the byte of bits 16-23: type1 in the low nibble, type2 in the high one
TailTypeBytes == {0, 2, 5, 15, 47, 242, 255}

\* the words that follow: 0x00000000 and 0xA0000001, whose top bytes are no
\* opcodes; read as a VariableRef the second has ref_type 0xA0
TailOperands == {<<0, 0, 0, 0>>, <<1, 0, 0, 160>>}

InitTail ==
    /\ \E b1 \in {0, 245, 255}, b2 \in {0, 255}, b3 \in TailTypeBytes, b4 \in TailOpcodes,
          n \in 0..MaxTail :
          \E ws \in [1..n -> TailOperands] : buf = <<b1, b2, b3, b4>> \o Flatten(ws)
    /\ bytecode_version \in {14, 15}
    /\ pos = 0
    /\ pc = "bc_loop"
    /\ form_size = 0
    /\ chunks = <<>>
    /\ err = NoErr
    /\ arg = 0
    /\ res = <<>>
    /\ instructions = <<>>

SpecTail == InitTail /\ [][NextBC]_vars

\* the decoded instruction is of opcode op
HasOpcode(ins, op) == ins.opcode = [known |-> TRUE, value |-> op]

\* bits 19-16 of the instruction word as it stands in the buffer
Type1InBuffer(ins) == buf[ins.start + 3] % 16

\* C25: a Push_I consumes exactly 1 extra word when type1 == Int32 (0x2)
\* and 0 extra words for every other type1, Int16 (0xF) included.
C25_PushITailByType1 ==
    \A i \in 1..Len(instructions) :
        HasOpcode(instructions[i], Opcode_push_i) =>
            Len(instructions[i].extra) =
                (IF Type1InBuffer(instructions[i]) = DataType_int32 THEN 4 ELSE 0)

\* C26: a Call or a Pop always consumes exactly one extra word, whatever
\* type1, type2 and val16 are, so the instruction occupies 8 bytes; the word
\* is the body of a CallBody (function reference) or of a PopBody (a
\* VariableRef).
C26_CallPopOneWord ==
    \A i \in 1..Len(instructions) :
        LET ins == instructions[i]
        IN  (HasOpcode(ins, Opcode_call) \/ HasOpcode(ins, Opcode_pop)) =>
              /\ Len(ins.extra) = 4
              /\ ins.extra = Slice(buf, ins.start + 4, 4)
              /\ InstrSize(ins) = 8
              /\ (IF i < Len(instructions) THEN instructions[i + 1].start ELSE pos)
                    = ins.start + 8
              /\ ins.body = (IF HasOpcode(ins, Opcode_call) THEN "CallBody" ELSE "PopBody")

\* a Pop with type byte 0xFF and val16 0xFFF5 that took the following word
\* 0xA0000001 as its VariableRef, the word after it being the next instruction
C26_Witness ==
    /\ pc = "bc_done"
    /\ Slice(buf, 0, 4) = <<245, 255, 255, Opcode_pop>>
    /\ Len(instructions) = 2
    /\ instructions[1].extra = <<1, 0, 0, 160>>
    /\ instructions[2].start = 8

\* C27: a Brk consumes exactly one extra word iff type1 == Int32 (0x2),
\* whatever the signal in val16; with any other type1 it consumes none,
\* also when val16 is the pushref signal -11 (0xFFF5).
C27_BrkTailByType1 ==
    \A i \in 1..Len(instructions) :
        LET ins == instructions[i]
        IN  HasOpcode(ins, Opcode_brk) =>
              /\ Len(ins.extra) = (IF Type1InBuffer(ins) = DataType_int32 THEN 4 ELSE 0)
              /\ ins.body = "BreakBody"
              /\ (IF i < Len(instructions) THEN instructions[i + 1].start ELSE pos)
                    = ins.start + 4 + Len(ins.extra)

\* a Brk with the pushref signal and type1 Int16: no extra word, the word
\* after it is decoded as the next instruction
C27_Witness ==
    /\ pc = "bc_done"
    /\ Slice(buf, 0, 4) = <<245, 255, 15, Opcode_brk>>
    /\ Len(buf) = 8
    /\ Len(instructions) = 2
    /\ instructions[1].extra = <<>>
    /\ instructions[2].start = 4

----------------------------------------------------------------------------
(* The packed variable reference word that follows a Pop (and a Push of    *)
(* type Variable).  The word is kept as its 4 bytes, r[4] being bits 31-24. *)

\* VariableRef.variable_id: raw & 16777215
VariableIdOf(r) == r[1] + 256 * r[2] + 65536 * r[3]

\* (mutant) no mask: raw >> 24 & 255
RefTypeOf_unmasked(r) == r[4]

\* VariableRef.ref_type: raw >> 24 & 248
RefTypeOf(r) == (r[4] \div 8) * 8

\* VariableRef(io) at stream position p, with its lazily computed properties
VariableRefRead(io, p) ==
    IF ~CanRead(io, p, 4) THEN Fail("EOFError")
    ELSE LET r == Slice(io, p, 4)
         IN  [ok |-> TRUE, raw |-> r, variable_id |-> VariableIdOf(r),
              ref_type |-> RefTypeOf(r), pos |-> p + 4]

\* bits 31-24 of the generated words: each ref_type seen in data files with
\* the three reserved bits clear, partly set and all set
RefTypeBytes == {0, 1, 7, 8, 128, 130, 135, 160, 167, 248, 255}

InitRef ==
    /\ \E b1 \in LowBytes, b2 \in LowBytes, b3 \in LowBytes, b4 \in RefTypeBytes,
          n \in {2, 4} : buf = SubSeq(<<b1, b2, b3, b4>>, 1, n)
    /\ bytecode_version \in {14, 15}
    /\ pos = 0
    /\ pc = "ref_start"
    /\ form_size = 0
    /\ chunks = <<>>
    /\ err = NoErr
    /\ arg = 0
    /\ res = <<>>
    /\ instructions = <<>>

\* the word is read and its properties evaluated
DecodeVariableRef ==
    /\ pc = "ref_start"
    /\ LET r == VariableRefRead(buf, pos)
       IN  IF r.ok
           THEN /\ res' = r
                /\ pos' = r.pos
                /\ pc' = "ref_done"
                /\ err' = err
           ELSE /\ res' = r
                /\ pc' = "ref_error"
                /\ err' = [kind |-> r.err, at |-> pos]
                /\ pos' = pos
    /\ UNCHANGED <<buf, form_size, chunks, arg, instructions, bytecode_version>>

NextRef == DecodeVariableRef

SpecRef == InitRef /\ [][NextRef]_vars

\* C28: variable_id = raw & 0xFFFFFF (bits 23-0) and ref_type =
\* (raw >> 24) & 0xF8: variable_id < 2^24, ref_type is a multiple of 8 in
\* [0, 248], and a word that differs only in bits 26-24 decodes to the same
\* (variable_id, ref_type).
C28_VariableRefFields ==
    pc = "ref_done" =>
        /\ res.variable_id \in 0..16777215
        /\ res.variable_id % 65536 = U2le(buf, 0)
        /\ res.variable_id \div 65536 = buf[3]
        /\ res.ref_type \in 0..248
        /\ res.ref_type % 8 = 0
        /\ buf[4] - res.ref_type \in 0..7
        /\ \A k \in 0..7 :
              LET o == VariableRefRead(<<buf[1], buf[2], buf[3], res.ref_type + k>>, 0)
              IN  o.variable_id = res.variable_id /\ o.ref_type = res.ref_type

\* the word 0xA7FF0001: singleton access (0xA0) with the reserved bits set
C28_Witness ==
    /\ pc = "ref_done"
    /\ buf = <<1, 0, 255, 167>>
    /\ res.variable_id = 16711681
    /\ res.ref_type = 160

====
